---- MODULE Spec2Model ----
(***************************************************************************)
(* orca: the rate-limited request pipeline (net::Connection), the OAuth    *)
(* engine (net::auth::OAuth) and the entry points of App.                  *)
(*                                                                         *)
(* Connection keeps its state in Cell/RefCell, so it is neither Send nor   *)
(* Sync: every call on it is made by the one thread that owns it and       *)
(* blocks that thread until it returns.  The only other threads are the    *)
(* hyper runtime that serves the installed-app callback while the owner    *)
(* is blocked in hyper::rt::run, and the thread that opens the browser.    *)
(*                                                                         *)
(* Time is counted in ticks; Duration::new(secs, 0) is secs * TicksPerSec  *)
(* ticks, and a Duration quotient is truncated to whole ticks.             *)
(***************************************************************************)
EXTENDS Integers, Sequences, FiniteSets, TLC

VARIABLES
    now,         \* the monotonic clock read by Instant::now()
    limit,       \* Connection.limit
    reqs,        \* Connection.reqs
    remaining,   \* Connection.remaining : Option<i32>
    reset_time,  \* Connection.reset_time
    auth,        \* Connection.auth : Option<OAuth>
    pc,          \* where the owning thread is: "idle", "sending", "storing", "opened", "listening"
    op,          \* the call of App/Connection/OAuth in progress
    req,         \* the run_request invocation in progress
    last,        \* what the most recent call returned
    batch,       \* two back-to-back authenticated requests of one caller
    code_sender, \* MakeInstalledAppService.code_sender still holds the Sender
    channel,     \* the oneshot channel from the service to create_installed_app
    code,        \* the `code` mutex of create_installed_app
    graceful,    \* the shutdown signal `finish` has resolved
    reply,       \* what the callback handled last was answered with
    browser,     \* the thread create_installed_app spawned to open the browser
    scopes,      \* a Scopes value its owner builds
    string       \* what Scopes::to_string returned for it

conn == <<limit, reqs, remaining, reset_time, auth>>
listener == <<code_sender, channel, code, graceful, reply>>
scoping == <<scopes, string>>
vars == <<now, limit, reqs, remaining, reset_time, auth, pc, op, req, last, batch,
          code_sender, channel, code, graceful, reply, browser, scopes, string>>

----------------------------------------------------------------------------
(* Bounds of the model *)

MaxTime == 5
TicksPerSec == 2
\* Fields of a Scopes value that differ from Scopes::empty() or from Scopes::all().
MaxFlipped == 2

----------------------------------------------------------------------------
(* Values *)

NoneI == [some |-> FALSE, val |-> 0]
SomeI(v) == [some |-> TRUE, val |-> v]
NoneS == [some |-> FALSE, val |-> ""]
SomeS(s) == [some |-> TRUE, val |-> s]

LimitMethod == {"Steady", "Burst"}

Ids == {"id1"}
Secrets == {"secret1"}
Usernames == {"user1"}
Passwords == {"pass1"}
\* A redirect the flow can serve, one whose host is no socket address, and one that
\* is no URL.
Redirects == {"http://127.0.0.1:7878", "http://localhost:7878", "no url"}
States == {"stateA"}
ForeignStates == {"stateB"}
Codes == {"codeX", "codeY"}
ErrorParams == {"access_denied"}
AccessTokens == {"tokA", "tokB"}
RefreshTokens == {"rtA"}
ExpiresIn == {1}

\* The header values a response can carry: absent, or a number.
UsedHeader == {NoneI, SomeI(1)}
RemainingHeader == {NoneI, SomeI(-1), SomeI(0), SomeI(1), SomeI(2)}
ResetHeader == {NoneI, SomeI(0), SomeI(1), SomeI(2)}

NoAuth == [kind |-> "None", id |-> "", secret |-> "", username |-> "", password |-> "",
           redirect |-> "", token |-> "", refresh_token |-> NoneS, expire_instant |-> NoneI]

\* Script with the username and the password exchanged.
ScriptSwapped(i, s, u, p, t) ==
    [kind |-> "Script", id |-> i, secret |-> s, username |-> p, password |-> u,
     redirect |-> "", token |-> t, refresh_token |-> NoneS, expire_instant |-> NoneI]

Script(i, s, u, p, t) ==
    [kind |-> "Script", id |-> i, secret |-> s, username |-> u, password |-> p,
     redirect |-> "", token |-> t, refresh_token |-> NoneS, expire_instant |-> NoneI]

InstalledApp(i, r, t, rt, e) ==
    [kind |-> "InstalledApp", id |-> i, secret |-> "", username |-> "", password |-> "",
     redirect |-> r, token |-> t, refresh_token |-> rt, expire_instant |-> e]

NoFields == [access_token |-> NoneS, refresh_token |-> NoneS, expires_in |-> NoneI, scope |-> NoneS]

\* The JSON objects a token endpoint can answer with.
TokenBodies ==
    [access_token : {NoneS} \cup {SomeS(t) : t \in AccessTokens},
     refresh_token : {NoneS} \cup {SomeS(t) : t \in RefreshTokens},
     expires_in : {NoneI} \cup {SomeI(e) : e \in ExpiresIn},
     scope : {NoneS, SomeS("*")}]

Headers == [used : UsedHeader, remaining : RemainingHeader, reset : ResetHeader]

NoHeaders == [used |-> NoneI, remaining |-> NoneI, reset |-> NoneI]

\* The headers drawn where the claims are about credentials, not about the budget.
FewHeaders ==
    {NoHeaders} \cup [used : {NoneI}, remaining : {SomeI(0), SomeI(1)}, reset : {SomeI(1)}]

\* What comes back from the transport: an error, or a response with its rate-limit
\* headers, its status class, and a body that is JSON or not.
TransportError ==
    [kind |-> "error", headers |-> NoHeaders,
     status |-> 0, json |-> FALSE, body |-> NoFields, text |-> ""]

\* StatusCode::is_success
IsSuccess(status) == status >= 200 /\ status < 300

\* The responses with a status among statuses and a body text among texts; json
\* says whether json::from_str accepts the text, body is what it parses to.
ResponsesOf(hs, bodies, statuses, texts) ==
    LET good == {c \in statuses : IsSuccess(c)}
        bad == {c \in statuses : ~IsSuccess(c)}
    IN  {TransportError}
        \cup [kind : {"response"}, headers : hs, status : bad, json : {FALSE},
              body : {NoFields}, text : texts]
        \cup [kind : {"response"}, headers : hs, status : good, json : {FALSE},
              body : {NoFields}, text : texts]
        \cup [kind : {"response"}, headers : hs, status : good, json : {TRUE},
              body : bodies, text : texts]

Responses(hs, bodies) == ResponsesOf(hs, bodies, {200, 404}, {"raw"})

Bodies(purpose) == IF purpose = "api" THEN {NoFields} ELSE TokenBodies

\* The query of a callback request: each of error, state and code present or not.
Params ==
    [error : {NoneS} \cup {SomeS(e) : e \in ErrorParams},
     state : {NoneS} \cup {SomeS(x) : x \in States \cup ForeignStates},
     code : {NoneS} \cup {SomeS(c) : c \in Codes}]

NoParams == [error |-> NoneS, state |-> NoneS, code |-> NoneS]

\* The callbacks of a user who allows or denies the application in the browser.
BrowserParams(expected) ==
    {[error |-> NoneS, state |-> SomeS(expected), code |-> SomeS(c)] : c \in Codes}
    \cup {[error |-> SomeS(e), state |-> SomeS(expected), code |-> NoneS] : e \in ErrorParams}

\* Result<String, InstalledAppError>, and the channel before and after its value.
Res(k, v) == [kind |-> k, val |-> v]
NeverRecieved == Res("NeverRecieved", "")
MismatchedState == Res("MismatchedState", "")
AlreadyRecieved == Res("AlreadyRecieved", "")
Empty == Res("Empty", "")
Closed == Res("Closed", "")

NoReply == [seen |-> FALSE, after |-> FALSE, res |-> Empty]
NoFirst == [seen |-> FALSE, params |-> NoParams]

NoOp == [name |-> "none", id |-> "", secret |-> "", username |-> "", password |-> "",
         redirect |-> "", state |-> "", code |-> "", first |-> NoFirst, auth0 |-> NoAuth,
         calls |-> <<>>, good |-> TRUE, due |-> FALSE]

NewOp(n) == [NoOp EXCEPT !.name = n]

NoReq == [purpose |-> "none", bearer |-> "", start |-> 0, delay |-> 0, body |-> NoFields]

\* What an error of run_request carries of the response.
NoPayload == [status |-> NoneI, text |-> NoneS]

\* The headers, the status and the body of a response as they came.
NoRaw == [headers |-> NoHeaders, status |-> 0, json |-> FALSE, text |-> ""]
Raw(r) == [headers |-> r.headers, status |-> r.status, json |-> r.json, text |-> r.text]

NoLast == [op |-> NoOp, result |-> "none", at |-> 0, answer |-> "none", body |-> NoFields,
           got |-> NoRaw, carried |-> NoPayload]

NoBatch == [left |-> 0, size |-> 0, results |-> <<>>]

Max(a, b) == IF a >= b THEN a ELSE b

----------------------------------------------------------------------------
(* Rate limiting: the head of Connection::run_request *)

\* Duration::checked_div(remaining as u32).  A negative i32 cast to u32 is
\* 2^32 + remaining, at least 2^31: the quotient of any duration of the model by it
\* is below one tick.
CheckedDiv(dur, r) ==
    IF r = 0 THEN NoneI
    ELSE IF r < 0 THEN SomeI(0)
    ELSE SomeI(dur \div r)

\* ThrottleDelay with the Burst test written as `remaining < 0`.
ThrottleDelayBurstStrict(lim, rem, rst, t) ==
    IF lim = "Steady"
    THEN IF rem.some /\ t < rst
         THEN LET q == CheckedDiv(rst - t, rem.val)
              IN  IF q.some THEN [panic |-> FALSE, delay |-> q.val]
                             ELSE [panic |-> TRUE, delay |-> 0]
         ELSE [panic |-> FALSE, delay |-> 0]
    ELSE IF rem.some /\ rem.val < 0 /\ rst > t
         THEN [panic |-> FALSE, delay |-> rst - t]
         ELSE [panic |-> FALSE, delay |-> 0]

\* ThrottleDelay without the test that the reset time is in the future: the window
\* is taken as the distance between the two instants.
ThrottleDelayStale(lim, rem, rst, t) ==
    LET window == IF t < rst THEN rst - t ELSE t - rst
    IN  IF lim = "Steady"
        THEN IF rem.some
             THEN LET q == CheckedDiv(window, rem.val)
                  IN  IF q.some THEN [panic |-> FALSE, delay |-> q.val]
                                 ELSE [panic |-> TRUE, delay |-> 0]
             ELSE [panic |-> FALSE, delay |-> 0]
        ELSE IF rem.some /\ rem.val <= 0
             THEN [panic |-> FALSE, delay |-> window]
             ELSE [panic |-> FALSE, delay |-> 0]

\* The sleep run_request takes before it sends, or the panic of unwrap() on None.
\* The reads of Instant::now() within the match are taken as one instant t.
ThrottleDelay(lim, rem, rst, t) ==
    IF lim = "Steady"
    THEN IF rem.some /\ t < rst
         THEN LET q == CheckedDiv(rst - t, rem.val)
              IN  IF q.some THEN [panic |-> FALSE, delay |-> q.val]
                             ELSE [panic |-> TRUE, delay |-> 0]
         ELSE [panic |-> FALSE, delay |-> 0]
    ELSE IF rem.some /\ rem.val <= 0 /\ rst > t
         THEN [panic |-> FALSE, delay |-> rst - t]
         ELSE [panic |-> FALSE, delay |-> 0]

\* An update of reset_time that puts the present time when the header is absent.
ObserveResetOrNow(h, old, t) == IF h.reset.some THEN t + h.reset.val * TicksPerSec ELSE t

\* An update of remaining that forgets the value when the header is absent.
ObserveRemainingOrForget(h, old) == IF h.remaining.some THEN SomeI(h.remaining.val) ELSE NoneI

\* The three header updates of run_request, each only when its header is present.
ObserveUsed(h, old) == IF h.used.some THEN h.used.val ELSE old
ObserveRemaining(h, old) == IF h.remaining.some THEN SomeI(h.remaining.val) ELSE old
ObserveReset(h, old, t) == IF h.reset.some THEN t + h.reset.val * TicksPerSec ELSE old

\* The budget with reqs of the response and the rest left from before.
ObservedInPart(r) ==
    IF r.kind = "error"
    THEN [reqs |-> reqs, remaining |-> remaining, reset_time |-> reset_time]
    ELSE [reqs |-> ObserveUsed(r.headers, reqs),
          remaining |-> remaining,
          reset_time |-> reset_time]

\* The budget that observes the headers of successful responses only.
ObservedOnSuccess(r) ==
    IF r.kind = "error" \/ ~IsSuccess(r.status)
    THEN [reqs |-> reqs, remaining |-> remaining, reset_time |-> reset_time]
    ELSE [reqs |-> ObserveUsed(r.headers, reqs),
          remaining |-> ObserveRemaining(r.headers, remaining),
          reset_time |-> ObserveReset(r.headers, reset_time, now)]

\* The budget after run_request got r: without a response nothing is observed, with
\* one the headers are, before its status is looked at.
Observed(r) ==
    IF r.kind = "error"
    THEN [reqs |-> reqs, remaining |-> remaining, reset_time |-> reset_time]
    ELSE [reqs |-> ObserveUsed(r.headers, reqs),
          remaining |-> ObserveRemaining(r.headers, remaining),
          reset_time |-> ObserveReset(r.headers, reset_time, now)]

\* What run_request returns for a response.
Classify(r) ==
    IF r.kind = "error" THEN "Transport"
    ELSE IF ~IsSuccess(r.status) THEN "BadRequest"
    ELSE IF ~r.json THEN "BadResponse"
    ELSE "Ok"

\* Payload that leaves the status out of BadRequest.
PayloadBodyOnly(r) ==
    IF Classify(r) = "BadRequest" THEN [status |-> NoneI, text |-> SomeS(r.text)]
    ELSE IF Classify(r) = "BadResponse" THEN [status |-> NoneI, text |-> SomeS(r.text)]
    ELSE NoPayload

\* BadRequest holds the Debug text of the response, status included, and the body;
\* BadResponse holds the body.
Payload(r) ==
    IF Classify(r) = "BadRequest" THEN [status |-> SomeI(r.status), text |-> SomeS(r.text)]
    ELSE IF Classify(r) = "BadResponse" THEN [status |-> NoneI, text |-> SomeS(r.text)]
    ELSE NoPayload

GoodResponse(purpose, r) ==
    /\ Classify(r) = "Ok"
    /\ purpose = "refresh" => r.body.access_token.some /\ r.body.expires_in.some /\ r.body.scope.some

----------------------------------------------------------------------------
(* Bookkeeping of a call *)

Endpoint(purpose) == IF purpose = "api" THEN "api" ELSE "token"

BatchAfter(o, result) ==
    IF batch.left > 0 /\ o.name = "run_auth_request"
    THEN [batch EXCEPT !.left = IF result = "panic" THEN 0 ELSE @ - 1,
                       !.results = Append(@, [result |-> result, calls |-> o.calls,
                                               good |-> o.good, due |-> o.due])]
    ELSE NoBatch

\* The call o returns result at time t.
Returns(o, result, t) ==
    /\ pc' = "idle"
    /\ req' = NoReq
    /\ op' = NoOp
    /\ now' = t
    /\ batch' = BatchAfter(o, result)

\* The call o returns result at time t, the error of run_request for the response r
\* when it is one; answer and body are how r was classified and what it parsed to.
FinishCarrying(o, result, t, answer, body, r) ==
    /\ Returns(o, result, t)
    /\ last' = [op |-> o, result |-> result, at |-> IF result = "panic" THEN t ELSE 0,
                answer |-> answer, body |-> body, got |-> Raw(r), carried |-> Payload(r)]

\* The call o returns result at time t; answer and body are the last response it read.
Finish(o, result, t, answer, body) ==
    /\ Returns(o, result, t)
    /\ last' = [op |-> o, result |-> result, at |-> IF result = "panic" THEN t ELSE 0,
                answer |-> answer, body |-> body, got |-> NoRaw, carried |-> NoPayload]

\* run_request is entered at time t with the budget (rem, rst): it sleeps, then
\* hands the request to the client, or panics in the division.
Enter(purpose, bearer, rem, rst, t, o) ==
    LET th == ThrottleDelay(limit, rem, rst, t)
    IN  IF th.panic
        THEN Finish(o, "panic", t, "none", NoFields)
        ELSE /\ t + th.delay <= MaxTime
             /\ pc' = "sending"
             /\ req' = [purpose |-> purpose, bearer |-> bearer, start |-> t, delay |-> th.delay,
                         body |-> NoFields]
             /\ op' = [o EXCEPT !.calls = Append(@, [ep |-> Endpoint(purpose), bearer |-> bearer])]
             /\ now' = t + th.delay
             /\ last' = NoLast
             /\ batch' = IF batch.left > 0 THEN batch ELSE NoBatch

\* A caller may start a call that is not part of a pending pair.
Free == pc = "idle" /\ batch.left = 0

Expired(a, t) == a.expire_instant.some /\ t > a.expire_instant.val

----------------------------------------------------------------------------
(* Scopes *)

\* The fields of Scopes in the order of their declaration.
Fields ==
    <<"identity", "edit", "flair", "history", "modconfig", "modflair", "modlog",
      "modposts", "modwiki", "mysubreddits", "privatemessages", "read", "report",
      "save", "submit", "subscribe", "vote", "wikiedit", "wikiread", "account">>

FieldNames == {Fields[i] : i \in DOMAIN Fields}

\* Scopes::empty and Scopes::all
empty == [f \in FieldNames |-> FALSE]
all == [f \in FieldNames |-> TRUE]

\* A String is the sequence of the pieces pushed onto it: field names and commas.
NoString == [some |-> FALSE, val |-> <<>>]
SomeString(v) == [some |-> TRUE, val |-> v]

\* The string after the first n tests of Scopes::to_string: the first field pushes
\* its name, every later field pushes a comma and its name.
RECURSIVE Pushed(_, _)
Pushed(s, n) ==
    IF n = 0 THEN <<>>
    ELSE LET string_ == Pushed(s, n - 1)
         IN  IF ~s[Fields[n]] THEN string_
             ELSE IF n = 1 THEN string_ \o <<Fields[n]>>
             ELSE string_ \o <<",", Fields[n]>>

\* to_string that pushes the names without commas.
RECURSIVE PushedPlain(_, _)
PushedPlain(s, n) ==
    IF n = 0 THEN <<>>
    ELSE IF s[Fields[n]] THEN PushedPlain(s, n - 1) \o <<Fields[n]>>
    ELSE PushedPlain(s, n - 1)

to_string_plain(s) == PushedPlain(s, Len(Fields))

\* Scopes::to_string
to_string(s) == Pushed(s, Len(Fields))

----------------------------------------------------------------------------
(* The calls *)

Init ==
    /\ now = 0
    /\ limit = "Steady"
    /\ reqs = 0
    /\ remaining = NoneI
    /\ reset_time = 0
    /\ auth = NoAuth
    /\ pc = "idle"
    /\ op = NoOp
    /\ req = NoReq
    /\ last = NoLast
    /\ batch = NoBatch
    /\ code_sender = FALSE
    /\ channel = Closed
    /\ code = NeverRecieved
    /\ graceful = FALSE
    /\ reply = NoReply
    /\ browser = "none"
    /\ scopes = empty
    /\ string = NoString

\* Time passes.
Tick ==
    /\ now < MaxTime
    /\ pc = "sending" \/ (pc = "idle" /\ batch.left = 0)
    /\ now' = now + 1
    /\ UNCHANGED <<conn, pc, op, req, last, batch, listener>>
    /\ UNCHANGED <<browser, scoping>>

\* Connection::set_limit
SetLimit(l) ==
    /\ Free
    /\ l # limit
    /\ limit' = l
    /\ last' = [NoLast EXCEPT !.op = NewOp("set_limit"), !.result = "Ok"]
    /\ batch' = NoBatch
    /\ UNCHANGED <<now, reqs, remaining, reset_time, auth, pc, op, req, listener>>
    /\ UNCHANGED <<browser, scoping>>

\* The credentials of a temporary authorization, which come without a refresh
\* token: one that does not expire and one that expires at t.
Temporary(t) ==
    {InstalledApp(i, "http://127.0.0.1:7878", "tokA", NoneS, e) :
        i \in Ids, e \in {NoneI, SomeI(t)}}

\* The owner of the connection assigns its public field `auth`.
SetAuth(a) ==
    /\ Free
    /\ a # auth
    /\ auth' = a
    /\ last' = [NoLast EXCEPT !.op = NewOp("set_auth"), !.result = "Ok"]
    /\ batch' = NoBatch
    /\ UNCHANGED <<now, limit, reqs, remaining, reset_time, pc, op, req, listener>>
    /\ UNCHANGED <<browser, scoping>>

\* Connection::run_request called for an API request that needs no authorization.
RunRequest ==
    /\ Free
    /\ Enter("api", "", remaining, reset_time, now, NewOp("run_request"))
    /\ UNCHANGED <<conn, listener>>
    /\ UNCHANGED <<browser, scoping>>

\* run_auth_request that attaches no header when there is no credential and sends.
AuthRequestBodySendsAnyway(o) ==
    IF auth.kind = "None"
    THEN Enter("api", "", remaining, reset_time, now, o)
    ELSE IF auth.kind = "Script"
    THEN Enter("api", auth.token, remaining, reset_time, now, o)
    ELSE IF auth.refresh_token.some /\ auth.expire_instant.some
    THEN IF now > auth.expire_instant.val
         THEN Enter("refresh", "", remaining, reset_time, now, o)
         ELSE Enter("api", auth.token, remaining, reset_time, now, o)
    ELSE IF auth.expire_instant.some
    THEN IF now > auth.expire_instant.val
         THEN Finish(o, "Forbidden", now, "none", NoFields)
         ELSE Enter("api", auth.token, remaining, reset_time, now, o)
    ELSE Enter("api", auth.token, remaining, reset_time, now, o)

\* run_auth_request that sends with the token it holds when the token has expired
\* and there is no refresh token.
AuthRequestBodyTerminalSends(o) ==
    IF auth.kind = "None"
    THEN Finish(o, "Forbidden", now, "none", NoFields)
    ELSE IF auth.kind = "Script"
    THEN Enter("api", auth.token, remaining, reset_time, now, o)
    ELSE IF auth.refresh_token.some /\ auth.expire_instant.some
    THEN IF now > auth.expire_instant.val
         THEN Enter("refresh", "", remaining, reset_time, now, o)
         ELSE Enter("api", auth.token, remaining, reset_time, now, o)
    ELSE Enter("api", auth.token, remaining, reset_time, now, o)

\* run_auth_request that refreshes whenever there is a refresh token, expired or not.
AuthRequestBodyEagerRefresh(o) ==
    IF auth.kind = "None"
    THEN Finish(o, "Forbidden", now, "none", NoFields)
    ELSE IF auth.kind = "Script"
    THEN Enter("api", auth.token, remaining, reset_time, now, o)
    ELSE IF auth.refresh_token.some /\ auth.expire_instant.some
    THEN Enter("refresh", "", remaining, reset_time, now, o)
    ELSE IF auth.expire_instant.some
    THEN IF now > auth.expire_instant.val
         THEN Finish(o, "Forbidden", now, "none", NoFields)
         ELSE Enter("api", auth.token, remaining, reset_time, now, o)
    ELSE Enter("api", auth.token, remaining, reset_time, now, o)

\* Connection::run_auth_request up to the first run_request it enters.
AuthRequestBody(o) ==
    IF auth.kind = "None"
    THEN Finish(o, "Forbidden", now, "none", NoFields)
    ELSE IF auth.kind = "Script"
    THEN Enter("api", auth.token, remaining, reset_time, now, o)
    ELSE IF auth.refresh_token.some /\ auth.expire_instant.some
    THEN IF now > auth.expire_instant.val
         THEN Enter("refresh", "", remaining, reset_time, now, o)
         ELSE Enter("api", auth.token, remaining, reset_time, now, o)
    ELSE IF auth.expire_instant.some
    THEN IF now > auth.expire_instant.val
         THEN Finish(o, "Forbidden", now, "none", NoFields)
         ELSE Enter("api", auth.token, remaining, reset_time, now, o)
    ELSE Enter("api", auth.token, remaining, reset_time, now, o)

\* run_auth_request callable while another call is between its two writes.
RunAuthRequestShared ==
    /\ pc \in {"idle", "storing"}
    /\ AuthRequestBody([NewOp("run_auth_request") EXCEPT
                            !.auth0 = auth,
                            !.due = Expired(auth, now) /\ auth.refresh_token.some])
    /\ UNCHANGED <<conn, listener>>
    /\ UNCHANGED <<browser, scoping>>

RunAuthRequest ==
    /\ pc = "idle"
    /\ AuthRequestBody([NewOp("run_auth_request") EXCEPT
                            !.auth0 = auth,
                            !.due = Expired(auth, now) /\ auth.refresh_token.some])
    /\ UNCHANGED <<conn, listener>>
    /\ UNCHANGED <<browser, scoping>>

\* A caller makes two authenticated requests back to back.
IssuePair ==
    /\ Free
    /\ batch' = [left |-> 2, size |-> 2, results |-> <<>>]
    /\ last' = NoLast
    /\ UNCHANGED <<now, conn, pc, op, req, listener>>
    /\ UNCHANGED <<browser, scoping>>

\* refresh that sends the token request without looking for a refresh token.
RefreshUnchecked ==
    /\ Free
    /\ auth.kind # "None"
    /\ LET o == [NewOp("refresh") EXCEPT !.auth0 = auth]
       IN  IF auth.kind = "Script"
           THEN Finish(o, "Ok", now, "none", NoFields)
           ELSE Enter("refresh", "", remaining, reset_time, now, o)
    /\ UNCHANGED <<conn, listener>>
    /\ UNCHANGED <<browser, scoping>>

\* refresh that treats a Script credential as one without refresh token.
RefreshScriptAlike ==
    /\ Free
    /\ auth.kind # "None"
    /\ LET o == [NewOp("refresh") EXCEPT !.auth0 = auth]
       IN  IF ~auth.refresh_token.some
           THEN Finish(o, "AuthError", now, "none", NoFields)
           ELSE Enter("refresh", "", remaining, reset_time, now, o)
    /\ UNCHANGED <<conn, listener>>
    /\ UNCHANGED <<browser, scoping>>

\* OAuth::refresh called by the owner of the connection.
Refresh ==
    /\ Free
    /\ auth.kind # "None"
    /\ LET o == [NewOp("refresh") EXCEPT !.auth0 = auth]
       IN  IF auth.kind = "Script"
           THEN Finish(o, "Ok", now, "none", NoFields)
           ELSE IF ~auth.refresh_token.some
           THEN Finish(o, "AuthError", now, "none", NoFields)
           ELSE Enter("refresh", "", remaining, reset_time, now, o)
    /\ UNCHANGED <<conn, listener>>
    /\ UNCHANGED <<browser, scoping>>

\* authorize_script that drops the credential held before it asks for the new one.
AuthorizeScriptClearing(i, s, u, p) ==
    /\ Free
    /\ Enter("script", "", remaining, reset_time, now,
             [NewOp("authorize_script") EXCEPT !.id = i, !.secret = s, !.username = u,
                                               !.password = p, !.auth0 = auth])
    /\ auth' = NoAuth
    /\ UNCHANGED <<limit, reqs, remaining, reset_time, listener>>
    /\ UNCHANGED <<browser, scoping>>

\* App::authorize_script up to the run_request of OAuth::create_script.
AuthorizeScript(i, s, u, p) ==
    /\ Free
    /\ Enter("script", "", remaining, reset_time, now,
             [NewOp("authorize_script") EXCEPT !.id = i, !.secret = s, !.username = u,
                                               !.password = p, !.auth0 = auth])
    /\ UNCHANGED <<conn, listener>>
    /\ UNCHANGED <<browser, scoping>>

----------------------------------------------------------------------------
(* The installed-app flow: OAuth::create_installed_app and its callback service *)

UrlParses(r) == r # "no url"
AddrParses(r) == r = "http://127.0.0.1:7878"

\* App::authorize_installed_app up to the spawn of the browser thread: the state is
\* drawn and the thread that opens the authorization URL is started.
AuthorizeInstalledApp(i, r, st) ==
    /\ Free
    /\ pc' = "opened"
    /\ op' = [NewOp("authorize_installed_app") EXCEPT !.id = i, !.redirect = r,
                                                      !.state = st, !.auth0 = auth]
    /\ last' = NoLast
    /\ batch' = NoBatch
    /\ UNCHANGED <<now, req, conn, listener>>
    /\ browser' = "pending"
    /\ UNCHANGED scoping

\* The spawned thread runs open::that(browser_uri).expect(..): the browser opens, or
\* the thread panics and ends; nobody joins it.
BrowserThread(opens) ==
    /\ browser = "pending"
    /\ browser' = IF opens THEN "opened" ELSE "failed"
    /\ UNCHANGED <<now, conn, pc, op, req, last, batch, listener, scoping>>

\* create_installed_app that joins the browser thread before it serves, and so
\* waits for it and takes over its panic.
ServeJoiningBrowser(bound) ==
    /\ pc = "opened"
    /\ browser # "pending"
    /\ IF browser = "failed"
       THEN Finish(op, "panic", now, "none", NoFields) /\ UNCHANGED listener
       ELSE IF ~UrlParses(op.redirect)
       THEN Finish(op, "UrlParseError", now, "none", NoFields) /\ UNCHANGED listener
       ELSE IF ~AddrParses(op.redirect)
       THEN Finish(op, "AddrParseError", now, "none", NoFields) /\ UNCHANGED listener
       ELSE IF ~bound
       THEN Finish(op, "panic", now, "none", NoFields) /\ UNCHANGED listener
       ELSE /\ pc' = "listening"
            /\ code_sender' = TRUE
            /\ channel' = Empty
            /\ code' = NeverRecieved
            /\ graceful' = FALSE
            /\ reply' = NoReply
            /\ UNCHANGED <<now, op, req, last, batch>>
    /\ UNCHANGED conn
    /\ UNCHANGED <<browser, scoping>>

\* create_installed_app that creates `code` as Ok of an empty string.
ServeCodeUnset(bound) ==
    /\ pc = "opened"
    /\ IF ~UrlParses(op.redirect)
       THEN Finish(op, "UrlParseError", now, "none", NoFields) /\ UNCHANGED listener
       ELSE IF ~AddrParses(op.redirect)
       THEN Finish(op, "AddrParseError", now, "none", NoFields) /\ UNCHANGED listener
       ELSE IF ~bound
       THEN Finish(op, "panic", now, "none", NoFields) /\ UNCHANGED listener
       ELSE /\ pc' = "listening"
            /\ code_sender' = TRUE
            /\ channel' = Empty
            /\ code' = Res("Ok", "")
            /\ graceful' = FALSE
            /\ reply' = NoReply
            /\ UNCHANGED <<now, op, req, last, batch>>
    /\ UNCHANGED conn
    /\ UNCHANGED <<browser, scoping>>

\* create_installed_app from the channel to hyper::rt::run: the redirect is parsed,
\* the server bound (Server::bind panics when it cannot bind) and armed with the
\* sender, and `code` starts as Err(NeverRecieved).
Serve(bound) ==
    /\ pc = "opened"
    /\ IF ~UrlParses(op.redirect)
       THEN Finish(op, "UrlParseError", now, "none", NoFields) /\ UNCHANGED listener
       ELSE IF ~AddrParses(op.redirect)
       THEN Finish(op, "AddrParseError", now, "none", NoFields) /\ UNCHANGED listener
       ELSE IF ~bound
       THEN Finish(op, "panic", now, "none", NoFields) /\ UNCHANGED listener
       ELSE /\ pc' = "listening"
            /\ code_sender' = TRUE
            /\ channel' = Empty
            /\ code' = NeverRecieved
            /\ graceful' = FALSE
            /\ reply' = NoReply
            /\ UNCHANGED <<now, op, req, last, batch>>
    /\ UNCHANGED conn
    /\ UNCHANGED <<browser, scoping>>

\* Parsed that looks at the state parameter before the error parameter.
ParsedStateFirst(p, expected) ==
    IF ~p.state.some THEN MismatchedState
    ELSE IF p.state.val # expected THEN MismatchedState
    ELSE IF p.error.some THEN Res("Error", p.error.val)
    ELSE IF ~p.code.some THEN Res("Panic", "")
    ELSE Res("Ok", p.code.val)

\* Parsed without the comparison of the state parameter with the state generated.
ParsedAnyState(p, expected) ==
    IF p.error.some THEN Res("Error", p.error.val)
    ELSE IF ~p.code.some THEN Res("Panic", "")
    ELSE Res("Ok", p.code.val)

\* What InstalledAppService::call hands to create_res for a query, or the panic of
\* params["code"] when the state matches and no code came with it.
Parsed(p, expected) ==
    IF p.error.some THEN Res("Error", p.error.val)
    ELSE IF ~p.state.some THEN MismatchedState
    ELSE IF p.state.val # expected THEN MismatchedState
    ELSE IF ~p.code.some THEN Res("Panic", "")
    ELSE Res("Ok", p.code.val)

\* InstalledAppService::call with create_res, for one callback request.
Callback(p) ==
    /\ pc = "listening"
    /\ LET res == Parsed(p, op.state)
       IN  IF res.kind = "Panic"
           THEN /\ reply' = [seen |-> TRUE, after |-> ~code_sender, res |-> res]
                /\ UNCHANGED <<code_sender, channel, op>>
           ELSE IF ~code_sender
           THEN /\ reply' = [seen |-> TRUE, after |-> TRUE, res |-> AlreadyRecieved]
                /\ UNCHANGED <<code_sender, channel, op>>
           ELSE /\ code_sender' = FALSE
                /\ op' = [op EXCEPT !.first = [seen |-> TRUE, params |-> p]]
                /\ IF channel = Empty
                   THEN /\ channel' = res
                        /\ reply' = [seen |-> TRUE, after |-> FALSE, res |-> res]
                   ELSE /\ channel' = channel
                        /\ reply' = [seen |-> TRUE, after |-> FALSE, res |-> AlreadyRecieved]
    /\ UNCHANGED <<now, conn, pc, req, last, batch, code, graceful>>
    /\ UNCHANGED <<browser, scoping>>

\* `finish` that stores the value sent and does not begin the shutdown.
FinishSignalKeepsServing ==
    /\ pc = "listening"
    /\ channel.kind \notin {"Empty", "Closed"}
    /\ code' = channel
    /\ channel' = Closed
    /\ graceful' = FALSE
    /\ UNCHANGED <<now, conn, pc, op, req, last, batch, code_sender, reply>>
    /\ UNCHANGED <<browser, scoping>>

\* The `finish` future: the receiver resolves, `code` takes the value sent and the
\* graceful shutdown of the server begins.
FinishSignal ==
    /\ pc = "listening"
    /\ channel.kind \notin {"Empty", "Closed"}
    /\ code' = channel
    /\ channel' = Closed
    /\ graceful' = TRUE
    /\ UNCHANGED <<now, conn, pc, op, req, last, batch, code_sender, reply>>
    /\ UNCHANGED <<browser, scoping>>

\* The server is dropped: its sender and the channel go with it.
Dropped ==
    /\ code_sender' = FALSE
    /\ channel' = Closed
    /\ code' = NeverRecieved
    /\ graceful' = FALSE
    /\ reply' = NoReply

\* create_installed_app that goes on to the exchange whatever `code` holds.
RtReturnsAnyOutcome ==
    /\ pc = "listening"
    /\ graceful
    /\ Enter("exchange", "", remaining, reset_time, now, [op EXCEPT !.code = code.val])
    /\ Dropped
    /\ UNCHANGED conn
    /\ UNCHANGED <<browser, scoping>>

\* hyper::rt::run returns after the shutdown, and create_installed_app goes on:
\* with Err it returns the error, with Ok it enters run_request for the exchange.
RtReturns ==
    /\ pc = "listening"
    /\ graceful
    /\ IF code.kind = "Ok"
       THEN Enter("exchange", "", remaining, reset_time, now, [op EXCEPT !.code = code.val])
       ELSE Finish(op, code.kind, now, "none", NoFields)
    /\ Dropped
    /\ UNCHANGED conn
    /\ UNCHANGED <<browser, scoping>>

\* The server future fails before any callback was taken: rt::run returns and
\* `code` is what it was created with.
ServerFails ==
    /\ pc = "listening"
    /\ code_sender
    /\ Finish(op, code.kind, now, "none", NoFields)
    /\ Dropped
    /\ UNCHANGED conn
    /\ UNCHANGED <<browser, scoping>>

\* ScriptResult that turns every response that is not a success into AuthError.
ScriptResultRejecting(res, body) ==
    IF res = "Transport" THEN res
    ELSE IF res # "Ok" THEN "AuthError"
    ELSE IF body.access_token.some THEN "Ok"
    ELSE "AuthError"

\* What OAuth::create_script returns for the value res of run_request: its error,
\* or AuthError when the JSON has no access_token.
ScriptResult(res, body) ==
    IF res # "Ok" THEN res
    ELSE IF body.access_token.some THEN "Ok"
    ELSE "AuthError"

\* An assignment that keeps a credential already held.
StoredIfNone(old, new) == IF old.kind = "None" THEN new ELSE old

\* App::authorize_script and App::authorize_installed_app assign the credential
\* made to conn.auth, whatever it held.
Stored(old, new) == new

\* Exchanged with the expiry counted from the start of the clock.
ExchangedNoClock(o, body, t) ==
    InstalledApp(o.id, o.redirect, body.access_token.val, SomeS(body.refresh_token.val),
                 SomeI(body.expires_in.val * TicksPerSec))

\* The credential OAuth::create_installed_app builds from the token response.
Exchanged(o, body, t) ==
    InstalledApp(o.id, o.redirect, body.access_token.val, SomeS(body.refresh_token.val),
                 SomeI(t + body.expires_in.val * TicksPerSec))

\* ExchangeComplete that asks for the three fields OAuth::refresh asks for.
ExchangeCompleteNoRefreshToken(body) ==
    body.expires_in.some /\ body.access_token.some /\ body.scope.some

ExchangeComplete(body) ==
    body.expires_in.some /\ body.access_token.some /\ body.refresh_token.some /\ body.scope.some

\* WriteToken that also stores the refresh_token field of the response.
WriteTokenRotating(a, body) ==
    [a EXCEPT !.token = body.access_token.val, !.refresh_token = body.refresh_token]

\* The two assignments of OAuth::refresh, in the order it makes them: the token,
\* then the instant of expiry.
WriteToken(a, body) == [a EXCEPT !.token = body.access_token.val]

WriteExpiry(a, body, t) ==
    [a EXCEPT !.expire_instant = SomeI(t + body.expires_in.val * TicksPerSec)]

\* RefreshResult that does not ask for the scope.
RefreshResultNoScope(body) ==
    IF body.expires_in.some /\ body.access_token.some THEN "Ok" ELSE "AuthError"

RefreshResult(body) ==
    IF body.expires_in.some /\ body.access_token.some /\ body.scope.some THEN "Ok" ELSE "AuthError"

\* The rest of run_request once the transport has answered with r, and what its
\* caller does with the value returned.
\* run_request that sends the caller's request again when the outcome is an error.
ReturnResponseRetrying(o, res, rem, rst, r) ==
    IF res # "Ok" /\ Len(o.calls) < 3
    THEN Enter("api", req.bearer, rem, rst, now, o)
    ELSE FinishCarrying(o, res, now, res, NoFields, r)

\* run_request hands the outcome of the one exchange of the caller's request to the
\* caller: there is no loop around the send.
ReturnResponse(o, res, rem, rst, r) == FinishCarrying(o, res, now, res, NoFields, r)

Exchange(r) ==
    /\ pc = "sending"
    /\ LET res == Classify(r)
           used == Observed(r).reqs
           rem == Observed(r).remaining
           rst == Observed(r).reset_time
           o == [op EXCEPT !.good = @ /\ GoodResponse(req.purpose, r)]
       IN  /\ reqs' = used
           /\ remaining' = rem
           /\ reset_time' = rst
           /\ limit' = limit
           /\ CASE req.purpose = "api" ->
                     /\ auth' = auth
                     /\ ReturnResponse(o, res, rem, rst, r)
                [] req.purpose = "script" ->
                     LET sr == ScriptResult(res, r.body)
                     IN  IF res # "Ok"
                         THEN auth' = auth /\ FinishCarrying(o, sr, now, res, NoFields, r)
                         ELSE IF sr = "Ok"
                         THEN /\ auth' = Stored(auth, Script(op.id, op.secret, op.username,
                                                             op.password, r.body.access_token.val))
                              /\ FinishCarrying(o, sr, now, res, r.body, r)
                         ELSE auth' = auth /\ FinishCarrying(o, sr, now, res, r.body, r)
                [] req.purpose = "exchange" ->
                     IF res # "Ok"
                     THEN auth' = auth /\ FinishCarrying(o, res, now, res, NoFields, r)
                     ELSE IF ExchangeComplete(r.body)
                     THEN /\ auth' = Stored(auth, Exchanged(op, r.body, now))
                          /\ FinishCarrying(o, "Ok", now, res, r.body, r)
                     ELSE auth' = auth /\ FinishCarrying(o, "AuthError", now, res, r.body, r)
                [] req.purpose = "refresh" ->
                     LET rr == IF res = "Ok" THEN RefreshResult(r.body) ELSE res
                     IN  IF rr = "Ok"
                         THEN /\ auth' = WriteToken(auth, r.body)
                              /\ pc' = "storing"
                              /\ req' = [req EXCEPT !.body = r.body]
                              /\ op' = o
                              /\ UNCHANGED <<now, last, batch>>
                         ELSE /\ auth' = auth
                              /\ IF op.name = "refresh"
                                 THEN FinishCarrying(o, rr, now, res, r.body, r)
                                 ELSE Enter("api", auth.token, rem, rst, now, o)
    /\ UNCHANGED listener
    /\ UNCHANGED <<browser, scoping>>

\* OAuth::refresh sets expire_instant after the token and returns Ok; within
\* run_auth_request the result is dropped and the request goes on with the token
\* now stored.
StoreExpiry ==
    /\ pc = "storing"
    /\ auth' = WriteExpiry(auth, req.body, now)
    /\ IF op.name = "refresh"
       THEN Finish(op, "Ok", now, "Ok", req.body)
       ELSE Enter("api", auth.token, remaining, reset_time, now, op)
    /\ UNCHANGED <<limit, reqs, remaining, reset_time, listener>>
    /\ UNCHANGED <<browser, scoping>>

Next ==
    \/ Tick
    \/ \E l \in LimitMethod : SetLimit(l)
    \/ RunRequest
    \/ RunAuthRequest
    \/ IssuePair
    \/ Refresh
    \/ \E i \in Ids, s \in Secrets, u \in Usernames, p \in Passwords : AuthorizeScript(i, s, u, p)
    \/ \E i \in Ids, r \in Redirects, st \in States : AuthorizeInstalledApp(i, r, st)
    \/ \E b \in BOOLEAN : Serve(b)
    \/ \E p \in BrowserParams(op.state) : Callback(p)
    \/ FinishSignal
    \/ RtReturns
    \/ ServerFails
    \/ \E r \in Responses(FewHeaders, Bodies(req.purpose)) : Exchange(r)
    \/ StoreExpiry
    \/ \E a \in Temporary(now) : SetAuth(a)

Spec == Init /\ [][Next]_vars

\* The pipeline without credentials, with every header a response can carry.
NextRate ==
    \/ Tick
    \/ \E l \in LimitMethod : SetLimit(l)
    \/ RunRequest
    \/ \E r \in Responses(Headers, {NoFields}) : Exchange(r)

SpecRate == Init /\ [][NextRate]_vars

\* Requests without authorization, with responses of several statuses and bodies.
WireResponses == ResponsesOf({NoHeaders}, {NoFields}, {199, 200, 299, 300, 404}, {"one", "two"})

NextWire ==
    \/ Tick
    \/ \E l \in LimitMethod : SetLimit(l)
    \/ RunRequest
    \/ \E r \in WireResponses : Exchange(r)

SpecWire == Init /\ [][NextWire]_vars

\* The number of fields in which s differs from the nearer of empty and all.
Flipped(s) ==
    LET set == Cardinality({f \in FieldNames : s[f]})
        clear == Cardinality(FieldNames) - set
    IN  IF set < clear THEN set ELSE clear

pipeline == <<now, conn, pc, op, req, last, batch, listener, browser>>

\* Scopes::empty()
NewEmpty ==
    /\ scopes # empty
    /\ scopes' = empty
    /\ string' = NoString
    /\ UNCHANGED pipeline

\* Scopes::all()
NewAll ==
    /\ scopes # all
    /\ scopes' = all
    /\ string' = NoString
    /\ UNCHANGED pipeline

\* The owner assigns a public field; `string` holds the result for the present
\* value only.
SetField(f, b) ==
    /\ scopes[f] # b
    /\ Flipped([scopes EXCEPT ![f] = b]) <= MaxFlipped
    /\ scopes' = [scopes EXCEPT ![f] = b]
    /\ string' = NoString
    /\ UNCHANGED pipeline

\* create_installed_app calls scopes.to_string().
CallToString ==
    /\ ~string.some
    /\ string' = SomeString(to_string(scopes))
    /\ UNCHANGED <<scopes, pipeline>>

NextScopes ==
    \/ NewEmpty
    \/ NewAll
    \/ \E f \in FieldNames, b \in BOOLEAN : SetField(f, b)
    \/ CallToString

SpecScopes == Init /\ [][NextScopes]_vars

\* The installed-app flow with every callback request the listener can be sent.
NextApp ==
    \/ Tick
    \/ \E i \in Ids, r \in Redirects, st \in States : AuthorizeInstalledApp(i, r, st)
    \/ \E b \in BOOLEAN : BrowserThread(b)
    \/ \E b \in BOOLEAN : Serve(b)
    \/ \E p \in Params : Callback(p)
    \/ FinishSignal
    \/ RtReturns
    \/ ServerFails
    \/ \E r \in Responses({NoHeaders}, Bodies(req.purpose)) : Exchange(r)

SpecApp == Init /\ [][NextApp]_vars

\* The installed-app flow with the steps the runtime takes by itself: once a value
\* is in the channel `finish` resolves, and once the shutdown has begun rt::run
\* returns.  Callbacks, responses and server failures come from outside.
SpecAppLive == SpecApp /\ WF_vars(FinishSignal) /\ WF_vars(RtReturns)

----------------------------------------------------------------------------
(* The claims *)

Window == reset_time - req.start
Throttled == pc = "sending"
Panicked == last.result = "panic"

TokenCalls(calls) == {i \in DOMAIN calls : calls[i].ep = "token"}
ApiBearers(calls) == {calls[i].bearer : i \in {j \in DOMAIN calls : calls[j].ep = "api"}}

\* Two authenticated requests were issued back to back, the first found the
\* InstalledApp credential expired with a refresh token, every response they read
\* was a success, and the second did not find the refreshed token expired again.
PairOnExpired ==
    /\ batch.size = 2
    /\ batch.left = 0
    /\ Len(batch.results) >= 1
    /\ batch.results[1].due
    /\ \A i \in DOMAIN batch.results : batch.results[i].good
    /\ Len(batch.results) = 2 => ~batch.results[2].due

\* C2: two authenticated requests issued on an expired InstalledApp credential with a
\* valid refresh token make exactly one refresh exchange between them, and both
\* return Ok having sent the API request with the refreshed token.
C2_OneRefreshForTwo ==
    PairOnExpired =>
        /\ Len(batch.results) = 2
        /\ \A i \in 1..2 : batch.results[i].result = "Ok"
        /\ Cardinality(TokenCalls(batch.results[1].calls))
             + Cardinality(TokenCalls(batch.results[2].calls)) = 1
        /\ \A i \in 1..2 : ApiBearers(batch.results[i].calls) = {auth.token}

\* The callback that took the sender carried the state generated, a code and no error.
MatchFirst(o) ==
    /\ o.first.seen
    /\ ~o.first.params.error.some
    /\ o.first.params.state = SomeS(o.state)
    /\ o.first.params.code.some

\* C3: after a first callback with the state generated and a code C the outcome is
\* Ok(C): it is what the channel or `code` holds and what the exchange is made with;
\* every callback handled after it is answered AlreadyRecieved.
C3_FirstCodeWins ==
    /\ (pc = "listening" /\ MatchFirst(op)) =>
           /\ Res("Ok", op.first.params.code.val) \in {channel, code}
           /\ reply.after => reply.res = AlreadyRecieved
    /\ (pc = "sending" /\ op.name = "authorize_installed_app" /\ MatchFirst(op)) =>
           op.code = op.first.params.code.val

\* The callback that took the sender carried no error, and no state or another state.
MismatchFirst(o) ==
    /\ o.first.seen
    /\ ~o.first.params.error.some
    /\ o.first.params.state # SomeS(o.state)

ReadJson(n) == last.op.name = n /\ last.answer = "Ok"

\* C5: when the response to the code exchange lacks one of access_token,
\* refresh_token, expires_in and scope, authorize_installed_app returns AuthError and
\* Connection.auth is what it was before the call.
C5_IncompleteExchange ==
    (/\ ReadJson("authorize_installed_app")
     /\ \/ ~last.body.access_token.some
        \/ ~last.body.refresh_token.some
        \/ ~last.body.expires_in.some
        \/ ~last.body.scope.some)
    => (last.result = "AuthError" /\ auth = last.op.auth0)

\* C5 witness: the response lacked the refresh token alone, and a credential was
\* stored before the call.
C5_Witness ==
    /\ ReadJson("authorize_installed_app")
    /\ last.body.access_token.some
    /\ ~last.body.refresh_token.some
    /\ last.body.expires_in.some
    /\ last.body.scope.some
    /\ last.result = "AuthError"
    /\ last.op.auth0.kind = "InstalledApp"

\* C6: when the token response is a success with an access_token, authorize_script
\* returns Ok and Connection.auth is a Script credential with that token and the id,
\* secret, username and password of the call.
C6_ScriptStored ==
    (ReadJson("authorize_script") /\ last.body.access_token.some) =>
        /\ last.result = "Ok"
        /\ auth.kind = "Script"
        /\ auth.token = last.body.access_token.val
        /\ auth.id = last.op.id
        /\ auth.secret = last.op.secret
        /\ auth.username = last.op.username
        /\ auth.password = last.op.password

\* C6 witness: a Script credential holds the token of the response just read.
C6_Witness ==
    /\ ReadJson("authorize_script")
    /\ last.body.access_token = SomeS("tokB")
    /\ auth.kind = "Script"
    /\ auth.token = "tokB"
    /\ auth.username = "user1"

\* C7: under Steady, with remaining known and the reset time ahead, the request is
\* sent after a sleep of (reset_time - now) / max(remaining, 1), and is sent.
C7_SteadyDelay ==
    /\ (Throttled /\ limit = "Steady" /\ remaining.some /\ req.start < reset_time)
          => req.delay = Window \div Max(remaining.val, 1)
    /\ ~Panicked
    /\ ThrottleDelay("Steady", SomeI(4), 8 * TicksPerSec, 0) = [panic |-> FALSE, delay |-> 2 * TicksPerSec]

\* C8: under Steady, with remaining zero or negative and the reset time ahead, the
\* computation does not panic and the sleep is the whole window.
C8_SteadyNonPositive ==
    /\ (Throttled /\ limit = "Steady" /\ remaining.some /\ remaining.val <= 0
           /\ req.start < reset_time)
          => req.delay = Window
    /\ ~Panicked

\* C9: under Burst the sleep is the whole window when remaining <= 0 and the reset
\* time is ahead, and zero for every remaining >= 1; Burst never panics.
C9_BurstDelay ==
    /\ (Throttled /\ limit = "Burst" /\ remaining.some /\ remaining.val <= 0
           /\ req.start < reset_time)
          => req.delay = Window
    /\ (Throttled /\ limit = "Burst" /\ remaining.some /\ remaining.val >= 1)
          => req.delay = 0
    /\ Panicked => limit = "Steady"
    /\ ThrottleDelay("Burst", SomeI(0), 5 * TicksPerSec, 0) = [panic |-> FALSE, delay |-> 5 * TicksPerSec]
    /\ ThrottleDelay("Burst", SomeI(1), 5 * TicksPerSec, 0) = [panic |-> FALSE, delay |-> 0]

\* C9 witness: a Burst request slept a whole window with remaining = 0.
C9_Witness ==
    /\ Throttled
    /\ limit = "Burst"
    /\ remaining = SomeI(0)
    /\ req.delay = Window
    /\ req.delay > 0

\* C10: under both strategies nothing is slept, and nothing panics, when remaining
\* was never observed or the reset time is not ahead, remaining = 0 included.
C10_NoStaleDelay ==
    /\ (Throttled /\ (~remaining.some \/ reset_time <= req.start)) => req.delay = 0
    /\ Panicked => (remaining.some /\ last.at < reset_time)

\* C10 witness: a request was sent at once with remaining = 0 and a reset time that
\* had passed.
C10_Witness ==
    /\ Throttled
    /\ remaining = SomeI(0)
    /\ reset_time > 0
    /\ reset_time < req.start
    /\ req.delay = 0

\* OAuth::refresh was called on an InstalledApp credential and has returned.
RefreshReturned == last.op.name = "refresh" /\ last.op.auth0.kind = "InstalledApp"

\* C11: a successful refresh of an InstalledApp credential writes the access_token
\* of the response as token, then now + expires_in as expire_instant, and each of
\* the two writes leaves every other field alone: id, redirect and refresh_token are
\* those the credential had when the refresh began.
C11_RefreshFrame ==
    [][/\ (pc = "sending" /\ pc' = "storing") =>
             /\ auth = op.auth0
             /\ auth' = [auth EXCEPT !.token = req'.body.access_token.val]
       /\ pc = "storing" =>
             auth' = [auth EXCEPT !.expire_instant =
                                     SomeI(now + req.body.expires_in.val * TicksPerSec)]
       /\ (RefreshReturned' /\ last'.result = "Ok") =>
             /\ auth'.token = last'.body.access_token.val
             /\ auth'.id = last'.op.auth0.id
             /\ auth'.redirect = last'.op.auth0.redirect
             /\ auth'.refresh_token = last'.op.auth0.refresh_token
             /\ auth'.kind = "InstalledApp"]_vars

\* C11 witness: a refresh returned Ok having changed both the token and the expiry.
C11_Witness ==
    /\ RefreshReturned
    /\ last.result = "Ok"
    /\ auth.token # last.op.auth0.token
    /\ auth.expire_instant # last.op.auth0.expire_instant
    /\ auth.refresh_token = SomeS("rtA")

\* A refresh sent its request and what came back was a transport error, a response
\* without success status, or JSON without one of the fields refresh needs.
RefreshFailed ==
    /\ RefreshReturned
    /\ last.op.calls # <<>>
    /\ \/ last.answer \in {"Transport", "BadRequest"}
       \/ /\ last.answer = "Ok"
          /\ \/ ~last.body.access_token.some
             \/ ~last.body.expires_in.some
             \/ ~last.body.scope.some

C13_NoRefreshToken ==
    /\ (RefreshReturned /\ ~last.op.auth0.refresh_token.some) =>
           /\ last.result = "AuthError"
           /\ last.op.calls = <<>>
           /\ auth = last.op.auth0
    /\ (op.name = "refresh" /\ op.auth0.kind = "InstalledApp") =>
           op.auth0.refresh_token.some

\* C13 witness: refresh returned AuthError for a credential without a refresh token.
C13_Witness ==
    /\ RefreshReturned
    /\ ~last.op.auth0.refresh_token.some
    /\ last.result = "AuthError"
    /\ auth.kind = "InstalledApp"

\* The API request of an authenticated request that found the token expired is in
\* flight.
SentAfterExpiry ==
    pc = "sending" /\ op.name = "run_auth_request" /\ op.due /\ req.purpose = "api"

\* An authenticated request that found the token expired has returned.
ReturnedAfterExpiry == last.op.name = "run_auth_request" /\ last.op.due

\* C14: when the refresh made by an authenticated request fails, the request
\* returns Forbidden and its API request is not sent: none is in flight after a
\* response that was not a successful refresh.
C14_FailedRefreshStops ==
    /\ SentAfterExpiry => op.good
    /\ (ReturnedAfterExpiry /\ auth = last.op.auth0) =>
           (last.result = "Forbidden" /\ Len(last.op.calls) = 1)

\* The token has expired and there is no refresh token.
Terminal(a, t) == a.kind = "InstalledApp" /\ ~a.refresh_token.some /\ Expired(a, t)

\* C15: while the stored InstalledApp credential is expired and has no refresh
\* token, every authenticated request returns Forbidden at once, having sent
\* nothing to the API or the token endpoint and leaving the credential alone; the
\* credential stays so until an authorization stores another.
C15_TerminalExpiry ==
    [][(Terminal(auth, now) /\ pc = "idle") =>
          /\ op'.name # "run_auth_request"
          /\ (last'.op.name = "run_auth_request" /\ now' = now) =>
                /\ last'.result = "Forbidden"
                /\ last'.op.calls = <<>>
                /\ auth' = auth
          /\ ~Terminal(auth', now') =>
                /\ last'.op.name \in {"authorize_script", "authorize_installed_app", "set_auth"}
                /\ last'.result = "Ok"]_vars

\* C15 witness: an authenticated request returned Forbidden on such a credential.
C15_Witness ==
    /\ Terminal(auth, now)
    /\ last.op.name = "run_auth_request"
    /\ last.result = "Forbidden"
    /\ last.op.auth0 = auth

\* C16: an authenticated request issued after the expiry of a credential with a
\* refresh token first refreshes, then sends the API request with the token just
\* obtained, which is not expired; when every response it reads is a success it
\* returns Ok.
C16_RefreshThenSend ==
    /\ SentAfterExpiry =>
           /\ op.calls[1].ep = "token"
           /\ auth.expire_instant # op.auth0.expire_instant
           /\ req.bearer = auth.token
           /\ ~Expired(auth, req.start)
    /\ (ReturnedAfterExpiry /\ last.op.good) => last.result = "Ok"

\* A call reads the stored credential as it begins.
TakesSnapshot ==
    \/ op.name # "run_auth_request" /\ op'.name = "run_auth_request"
    \/ op.name = "none" /\ last' # last /\ last'.op.name = "run_auth_request"

Waiting == pc = "listening" /\ code_sender

\* C18: an attempt that waits for a callback does not wait forever: the wait ends,
\* if by nothing else then by the timeout.
C18_WaitEnds == Waiting ~> ~Waiting

\* The callback that took the sender carried an error parameter.
ErrorFirst(o) == o.first.seen /\ o.first.params.error.some

\* C19: when the first callback carries an error parameter, the outcome is Error with
\* that parameter as message whatever else the callback carries, the flow returns
\* it without a request to the token endpoint, and the credential is unchanged.
C19_ProviderError ==
    /\ (op.name = "authorize_installed_app" /\ ErrorFirst(op)) =>
           /\ pc = "listening"
           /\ Res("Error", op.first.params.error.val) \in {channel, code}
           /\ op.calls = <<>>
    /\ (last.op.name = "authorize_installed_app" /\ ErrorFirst(last.op)) =>
           /\ last.result = "Error"
           /\ last.op.calls = <<>>
           /\ auth = last.op.auth0

\* C19 witness: the flow returned Error after a first callback that carried an
\* error together with the state generated and a code.
C19_Witness ==
    /\ last.op.name = "authorize_installed_app"
    /\ last.result = "Error"
    /\ ErrorFirst(last.op)
    /\ last.op.first.params.state = SomeS(last.op.state)
    /\ last.op.first.params.code.some

\* C20: every callback request is handled to the end and answered with a response
\* made by the response generator, whatever parameters it carries.
C20_EveryCallbackAnswered ==
    reply.seen =>
        reply.res.kind \in {"Ok", "Error", "MismatchedState", "AlreadyRecieved"}

\* authorize_script has returned after its token request was answered.
ScriptReturned == last.op.name = "authorize_script" /\ last.answer # "none"

C22_ExchangeStored ==
    [][(pc = "sending" /\ req.purpose = "exchange" /\ last'.result = "Ok") =>
          /\ last'.body.refresh_token.some
          /\ auth' = [kind |-> "InstalledApp", id |-> op.id, secret |-> "", username |-> "",
                      password |-> "", redirect |-> op.redirect,
                      token |-> last'.body.access_token.val,
                      refresh_token |-> SomeS(last'.body.refresh_token.val),
                      expire_instant |->
                          SomeI(now + last'.body.expires_in.val * TicksPerSec)]]_vars

\* C22 witness: an exchange read after the clock had advanced stored its credential.
C22_Witness ==
    /\ last.op.name = "authorize_installed_app"
    /\ last.result = "Ok"
    /\ auth.kind = "InstalledApp"
    /\ auth.token = last.body.access_token.val
    /\ auth.expire_instant.val > last.body.expires_in.val * TicksPerSec

\* run_request has returned for a request that was sent and answered.
Answered == last.op.name = "run_request" /\ last.answer \notin {"none", "Transport"}

\* C23: for a request that was answered, run_request returns BadRequest holding the
\* status and the body when the status is outside 200..299, BadResponse holding the
\* body when the status is inside and the body is not JSON, and Ok otherwise.
C23_Classification ==
    Answered =>
        IF last.got.status < 200 \/ last.got.status > 299
        THEN /\ last.result = "BadRequest"
             /\ last.carried = [status |-> SomeI(last.got.status), text |-> SomeS(last.got.text)]
        ELSE IF ~last.got.json
        THEN /\ last.result = "BadResponse"
             /\ last.carried = [status |-> NoneI, text |-> SomeS(last.got.text)]
        ELSE /\ last.result = "Ok"
             /\ last.carried = NoPayload

\* C23 witness: a response with status 300 and body "two" came back as BadRequest.
C23_Witness ==
    /\ Answered
    /\ last.got.status = 300
    /\ last.got.text = "two"
    /\ last.result = "BadRequest"

\* The exchanges of the caller's own request among the calls made.
ApiCalls(calls) == {i \in DOMAIN calls : calls[i].ep = "api"}

\* A request operation, running or returned.
Sends(o) == o.name \in {"run_request", "run_auth_request"}

\* C24: one call of run_request or run_auth_request makes at most one exchange of
\* the caller's request, while it runs and after it has returned with any outcome.
C24_NoRetry ==
    /\ Sends(op) => Cardinality(ApiCalls(op.calls)) <= 1
    /\ Sends(last.op) => Cardinality(ApiCalls(last.op.calls)) <= 1

\* C24 witness: an authenticated request refreshed the token, sent the request once
\* and returned the server's rejection.
C24_Witness ==
    /\ last.op.name = "run_auth_request"
    /\ last.result = "BadRequest"
    /\ Len(last.op.calls) = 2
    /\ Cardinality(ApiCalls(last.op.calls)) = 1

\* The step in which authorize_script or authorize_installed_app returns Ok.
Authorizes ==
    /\ pc = "sending"
    /\ req.purpose \in {"script", "exchange"}
    /\ last'.result = "Ok"

\* The step in which run_auth_request starts the exchange of the caller's request.
StartsAuthenticated ==
    /\ op'.name = "run_auth_request"
    /\ pc' = "sending"
    /\ req' # req
    /\ req'.purpose = "api"

\* C25: when authorize_script or authorize_installed_app returns Ok, Connection.auth
\* becomes the credential of that call (its kind, its client id and the token of the
\* response) whatever it held before, and every exchange run_auth_request starts
\* carries the token of the credential then stored.
C25_Replaced ==
    [][/\ Authorizes =>
            /\ auth'.kind = IF req.purpose = "script" THEN "Script" ELSE "InstalledApp"
            /\ auth'.id = op.id
            /\ auth'.token = last'.body.access_token.val
       /\ StartsAuthenticated => req'.bearer = auth'.token]_vars

\* C25 witness: authorize_script returned Ok while an InstalledApp credential with
\* another token was stored, and the Script credential has taken its place.
C25_Witness ==
    /\ last.op.name = "authorize_script"
    /\ last.result = "Ok"
    /\ last.op.auth0.kind = "InstalledApp"
    /\ last.op.auth0.token # last.body.access_token.val
    /\ auth.kind = "Script"
    /\ auth.token = last.body.access_token.val

\* The comma-separated fields of a string, each the pieces between two commas.
RECURSIVE Split(_)
Split(t) ==
    IF \A i \in DOMAIN t : t[i] # "," THEN <<t>>
    ELSE LET i == CHOOSE k \in DOMAIN t : t[k] = "," /\ \A j \in 1..(k - 1) : t[j] # ","
         IN  <<SubSeq(t, 1, i - 1)>> \o Split(SubSeq(t, i + 1, Len(t)))

\* The flags a list of fields names, when every field is one flag name.
Flags(list) == {list[i][1] : i \in DOMAIN list}

\* C26: the string of Scopes::all(), split at its commas, is one field for every
\* flag and no other, and the string of Scopes::empty() is the empty string.
C26_RoundTrip ==
    string.some =>
        /\ scopes = all =>
              LET list == Split(string.val)
              IN  /\ Len(list) = Cardinality(FieldNames)
                  /\ \A i \in DOMAIN list : Len(list[i]) = 1 /\ list[i][1] \in FieldNames
                  /\ Flags(list) = FieldNames
        /\ scopes = empty => string.val = <<>>

\* C26 witness: to_string has returned for Scopes::all().
C26_Witness == string.some /\ scopes = all /\ Len(string.val) > 1

\* The names of the fields of s that are true, in the order of declaration.
Selected(s) == SelectSeq(Fields, LAMBDA f : s[f])

\* The names of a list with one comma between each two neighbours.
RECURSIVE Joined(_)
Joined(names) ==
    IF names = <<>> THEN <<>>
    ELSE IF Len(names) = 1 THEN names
    ELSE <<Head(names), ",">> \o Joined(Tail(names))

\* C27: the string to_string returns is the names of the fields that are true, in
\* the order of declaration, with one comma between each two and none before the
\* first or after the last.
C27_CommaJoined == string.some => string.val = Joined(Selected(scopes))

\* An installed-app attempt, running or returned.
Attempts == {o \in {op, last.op} : o.name = "authorize_installed_app"}

\* C28: an attempt that has sent to the token endpoint has done so once, after a
\* first callback without error parameter whose state is the state generated, and
\* with the code of that callback; an attempt whose first callback carried an error
\* or another state returns that error and has sent nothing.
C28_ExchangeOnlyWithCode ==
    /\ \A o \in Attempts :
          o.calls # <<>> =>
              /\ MatchFirst(o)
              /\ o.code = o.first.params.code.val
              /\ Len(o.calls) = 1
    /\ (last.op \in Attempts /\ last.op.first.seen /\ ~MatchFirst(last.op)) =>
          /\ last.result \in {"Error", "MismatchedState"}
          /\ last.op.calls = <<>>

\* C28 witness: the one exchange of an attempt is in flight with the code of the
\* first callback, which carried the state generated.
C28_Witness ==
    /\ pc = "sending"
    /\ req.purpose = "exchange"
    /\ MatchFirst(op)
    /\ op.code = op.first.params.code.val
    /\ Len(op.calls) = 1

\* The step puts a value into the oneshot channel.
Fills == channel' # channel /\ channel'.kind \notin {"Empty", "Closed"}

\* The step handles a callback that arrives after the sender was taken.
HandlesLate ==
    /\ pc = "listening"
    /\ pc' = "listening"
    /\ ~code_sender
    /\ reply' # reply

\* C29: the channel is filled only while it is empty, by the callback that takes the
\* sender; every callback handled after that is answered AlreadyRecieved and leaves
\* the channel as it is.
C29_OneShot ==
    [][/\ Fills => (channel = Empty /\ code_sender /\ ~code_sender')
       /\ HandlesLate => (reply'.res = AlreadyRecieved /\ channel' = channel)]_vars

\* Where an installed-app attempt stands.  Failed stands for every return with an
\* error, a panic included.
Phase ==
    IF pc = "opened" THEN "BrowserOpened"
    ELSE IF pc = "listening"
    THEN IF ~op.first.seen THEN "AwaitingCallback"
         ELSE IF MatchFirst(op) THEN "CodeReceived"
         ELSE "CallbackError"
    ELSE IF pc = "sending" /\ op.name = "authorize_installed_app" THEN "ExchangingToken"
    ELSE IF pc = "idle" /\ last.op.name = "authorize_installed_app"
    THEN IF last.result = "Ok" THEN "Authorized" ELSE "Failed"
    ELSE "Idle"

\* The moves of the attempt; a listener that stops with no callback taken is counted
\* with the callback errors, and a failed exchange goes to Failed in the step in
\* which its response is read.
Moves ==
    {<<"BrowserOpened", "AwaitingCallback">>,
     <<"AwaitingCallback", "CodeReceived">>,
     <<"AwaitingCallback", "CallbackError">>,
     <<"AwaitingCallback", "Failed">>,
     <<"CodeReceived", "ExchangingToken">>,
     <<"CallbackError", "Failed">>,
     <<"ExchangingToken", "Authorized">>,
     <<"ExchangingToken", "Failed">>}

\* C30: an attempt starts from rest with the browser opened, every later step of it
\* that changes its phase is one of the moves (none leads from BrowserOpened to
\* Failed), nothing moves once it has returned, and it makes at most one exchange.
C30_AttemptMoves ==
    [][/\ pc' = "opened" => (pc = "idle" /\ Phase' = "BrowserOpened")
       /\ (op.name = "authorize_installed_app" /\ Phase' # Phase) =>
              <<Phase, Phase'>> \in Moves
       /\ op'.name = "authorize_installed_app" => Len(op'.calls) <= 1]_vars

\* A callback has taken the sender and create_installed_app is still in rt::run.
Processed == pc = "listening" /\ op.first.seen

\* create_installed_app has left rt::run: it has returned or is in the exchange.
LeftListener == pc \in {"idle", "sending"}

C32_NeverRecieved ==
    [][/\ (pc = "opened" /\ pc' = "listening") => code' = NeverRecieved
       /\ (pc = "listening" /\ pc' = "listening" /\ code' # code) =>
              (channel.kind \notin {"Empty", "Closed"} /\ code' = channel)
       /\ (pc = "listening" /\ ~op.first.seen /\ pc' # "listening") =>
              (pc' = "idle" /\ last'.result = "NeverRecieved")]_vars

\* C32 witness: the call returned NeverRecieved from a listener that had been armed
\* and whose sender no callback had taken.
C32_Witness ==
    /\ last.op.name = "authorize_installed_app"
    /\ ~last.op.first.seen
    /\ last.result = "NeverRecieved"

\* The redirect of the attempt can be served when the port can be bound.
Servable == UrlParses(op.redirect) /\ AddrParses(op.redirect)

\* C33: whatever the browser thread does (still running, opened, failed), a call
\* with a good redirect can go on to arm the listener; the step in which the
\* browser fails changes nothing of the call or the listener; and with the browser
\* failed, the callback that takes the sender fills the channel with the outcome
\* its parameters give.
C33_BrowserFailureHarmless ==
    [][/\ (pc = "opened" /\ Servable) => ENABLED (Serve(TRUE) /\ pc' = "listening")
       /\ (browser = "pending" /\ browser' = "failed") =>
              UNCHANGED <<pc, op, last, auth, listener>>
       /\ (browser = "failed" /\ pc = "listening" /\ pc' = "listening"
              /\ code_sender /\ ~code_sender') =>
              channel' = Parsed(op'.first.params, op.state)]_vars

\* C33 witness: the browser failed to open, and the listener armed for the same
\* attempt has taken a callback carrying the state generated and a code.
C33_Witness ==
    /\ browser = "failed"
    /\ pc = "listening"
    /\ MatchFirst(op)
    /\ channel.kind = "Ok"

\* The step in which run_request returns to its caller with a response read.
Completes ==
    /\ pc = "sending"
    /\ pc' = "idle"
    /\ last'.answer \notin {"none", "Transport"}

\* C34: when run_request returns with a response read, of whatever status, reqs,
\* remaining and reset_time are what the headers of that response say: each header
\* present sets its field, a success and a rejection alike.
C34_ObservedWhateverStatus ==
    [][Completes =>
          LET h == last'.got.headers
          IN  /\ h.used.some => reqs' = h.used.val
              /\ h.remaining.some => remaining' = SomeI(h.remaining.val)
              /\ h.reset.some => reset_time' = now + h.reset.val * TicksPerSec]_vars

\* C34 witness: a response with status 404 and all three headers was read, and the
\* budget holds its values.
C34_Witness ==
    /\ last.result = "BadRequest"
    /\ last.got.status = 404
    /\ last.got.headers = [used |-> SomeI(1), remaining |-> SomeI(2), reset |-> SomeI(2)]
    /\ reqs = 1
    /\ remaining = SomeI(2)
    /\ reset_time = now + 2 * TicksPerSec

\* C35: when run_request returns with a response read, each of reqs, remaining and
\* reset_time whose header the response does not carry is what it was before; with
\* none of the three headers all three are.
C35_AbsentHeaderKeeps ==
    [][Completes =>
          LET h == last'.got.headers
          IN  /\ ~h.used.some => reqs' = reqs
              /\ ~h.remaining.some => remaining' = remaining
              /\ ~h.reset.some => reset_time' = reset_time]_vars

\* C35 witness: the response read last carried the remaining header alone, and
\* reqs still holds what an earlier response set.
C35_Witness ==
    /\ last.answer \notin {"none", "Transport"}
    /\ last.got.headers = [used |-> NoneI, remaining |-> SomeI(0), reset |-> NoneI]
    /\ remaining = SomeI(0)
    /\ reqs = 1

\* C36: reset_time changes only in a step of run_request that has got a response,
\* and then is the time of that step plus the seconds of a reset header; when the
\* step returns to the caller, the header is the one of the response read.  No
\* other step (throttling, starting a request, authorizing, refreshing, the
\* listener) changes it.
C36_ResetOnlyObserved ==
    [][reset_time' # reset_time =>
          /\ pc = "sending"
          /\ \E h \in ResetHeader : h.some /\ reset_time' = now + h.val * TicksPerSec
          /\ Completes =>
                 /\ last'.got.headers.reset.some
                 /\ reset_time' = now + last'.got.headers.reset.val * TicksPerSec]_vars

\* C36 witness: authorize_script read a token response with a reset header of one
\* second, and reset_time is one second after the present.
C36_Witness ==
    /\ last.op.name = "authorize_script"
    /\ last.result = "Ok"
    /\ last.got.headers.reset = SomeI(1)
    /\ reset_time = now + TicksPerSec

\* The response read in the step carried all three rate-limit headers.
FullyObserved ==
    /\ Completes
    /\ last'.got.headers.used.some
    /\ last'.got.headers.remaining.some
    /\ last'.got.headers.reset.some

NoRefreshDue(o) == o.name = "run_auth_request" /\ ~o.due

\* C38: an authenticated request that found no refresh due leaves Connection.auth
\* as it is in each of its steps and makes no exchange with the token endpoint; and
\* Connection.auth changes only in the steps of a refresh, or by being replaced
\* when an authorize call succeeds or its owner assigns the field.
C38_PipelineOnlyReads ==
    [][/\ (NoRefreshDue(op) \/ NoRefreshDue(op')) => auth' = auth
       /\ NoRefreshDue(op') => TokenCalls(op'.calls) = {}
       /\ auth' # auth =>
              \/ req.purpose = "refresh"
              \/ Authorizes
              \/ last'.op.name = "set_auth"]_vars

\* C38 witness: an authenticated request with an InstalledApp credential that has a
\* refresh token and has not expired returned Ok after one exchange, of the request
\* itself, and the credential is the one it started with.
C38_Witness ==
    /\ NoRefreshDue(last.op)
    /\ last.result = "Ok"
    /\ last.op.auth0.kind = "InstalledApp"
    /\ last.op.auth0.refresh_token.some
    /\ last.op.auth0.expire_instant.some
    /\ Len(last.op.calls) = 1
    /\ auth = last.op.auth0

\* OAuth::refresh called on a Script credential.
ScriptRefresh(o) == o.name = "refresh" /\ o.auth0.kind = "Script"

\* C39: refresh called on a Script credential returns in the step of the call,
\* with Ok, with no request made and no time passed, and leaves Connection.auth the
\* Script credential it was; this at every call.
C39_ScriptRefreshNoOp ==
    [][(ScriptRefresh(op') \/ (last' # last /\ ScriptRefresh(last'.op))) =>
          /\ pc = "idle"
          /\ pc' = "idle"
          /\ last'.result = "Ok"
          /\ last'.op.calls = <<>>
          /\ now' = now
          /\ auth' = auth
          /\ auth = last'.op.auth0]_vars

\* C39 witness: refresh has returned Ok for a Script credential without a request,
\* after an earlier request had already used the credential.
C39_Witness ==
    /\ ScriptRefresh(last.op)
    /\ last.result = "Ok"
    /\ last.op.calls = <<>>
    /\ auth = last.op.auth0
    /\ reqs > 0 \/ remaining.some

\* An authorize call.
Authorizing(o) == o.name \in {"authorize_script", "authorize_installed_app"}

\* C40: from its first step to its return, an authorize call leaves Connection.auth
\* what it was when the call was made, and a call that returns anything but Ok (an
\* error of the transport, of the server, of the callback, of the redirect, or the
\* panic of a listener that cannot be bound) returns with it so.
C40_FailedAuthorizeKeeps ==
    [][/\ Authorizing(op') => (auth' = auth /\ auth' = op'.auth0)
       /\ (Authorizing(op) /\ pc' = "idle" /\ last'.result # "Ok") =>
              (auth' = auth /\ auth' = last'.op.auth0)]_vars

\* C40 witness: authorize_installed_app returned the error of an invalid redirect
\* while a Script credential was stored, and the Script credential is still there.
C40_Witness ==
    /\ last.op.name = "authorize_installed_app"
    /\ last.result = "UrlParseError"
    /\ last.op.auth0.kind = "Script"
    /\ auth = last.op.auth0

====
